---- MODULE Spec2Model ----
(***************************************************************************)
(* State-machine model of rcn_dashboard.py: the two source adapters        *)
(* (comtrade_price, mt_expected_tuticorin), the cached ledger loader       *)
(* (load_tuticorin_xls), the cached forecaster (train_price_model) and the *)
(* script body that runs them stage by stage (KPIs, tabs T1..T4).          *)
(*                                                                         *)
(* Conventions of the data model                                           *)
(*   - a float is a fraction [n, d] with d > 0; NaN is [n |-> 0, d |-> 0]. *)
(*     Rounding of IEEE doubles is not modelled.                           *)
(*   - a timestamp is [ym, day]: ym counts months from January 2020;       *)
(*     NaT is [ym |-> -1, day |-> 0].                                      *)
(*   - a missing string cell (NaN in an object column) is NA_STR.          *)
(*   - importer names are integers ordered as the names are; 0 is missing. *)
(***************************************************************************)
EXTENDS Integers, Sequences, FiniteSets, TLC

\* ------------------------------------------------------------------
\* 1. CONFIGURATION
\* ------------------------------------------------------------------
GRADES == <<"RBS", "NC">>

ORIGINS == << [name |-> "Ghana", iso |-> "GH"],
              [name |-> "Cote d'Ivoire", iso |-> "CI"],
              [name |-> "Guinea", iso |-> "GN"],
              [name |-> "Tanzania", iso |-> "TZ"],
              [name |-> "Benin", iso |-> "BJ"] >>

PORT_CODE_TUTICORIN == "INTUT1"

\* periods=6 of make_future_dataframe
FuturePeriods == 6

\* the threshold of `if len(mdf) < 12`
MinPoints == 12

\* head(10) of top_buyers
TopBuyers == 10

\* the slider's range, 1..6
HorizonMin == 1

HorizonMax == 6

\* ------------------------------------------------------------------
\* Bounds of the model
\* ------------------------------------------------------------------
\* script runs per process
MaxRuns == 3

\* origins selected in the sidebar
MaxSel == 2

\* rows of a ledger built from RowKinds
MaxRows == 3

\* months of a ledger built by MonthLedger
MaxMonths == 13

\* importers of a ledger built by ImporterLedger
MaxImporters == 11

\* ------------------------------------------------------------------
\* Floats, timestamps, strings
\* ------------------------------------------------------------------
NaN == [n |-> 0, d |-> 0]

Num(v) == [n |-> v, d |-> 1]

IsNaN(x) == x.d = 0

NaT == [ym |-> 0 - 1, day |-> 0]

IsNaT(t) == t.ym < 0

\* a < b on timestamps
TLess(a, b) == a.ym < b.ym \/ (a.ym = b.ym /\ a.day < b.day)

NA_STR == "<NA>"

NA_DESC == <<"<NA>">>

\* groupby drops the rows whose key is missing
ImporterMissing(i) == i < 1

\* a < b on floats; every comparison with NaN is false
FLess(a, b) == ~IsNaN(a) /\ ~IsNaN(b) /\ a.n * b.d < b.n * a.d

FEq(a, b) == ~IsNaN(a) /\ ~IsNaN(b) /\ a.n * b.d = b.n * a.d

\* a + b on floats (NaN propagates)
FAdd(a, b) ==
  IF IsNaN(a) \/ IsNaN(b) THEN NaN
  ELSE [n |-> a.n * b.d + b.n * a.d, d |-> a.d * b.d]

\* a / k for a positive integer count k
FDivInt(a, k) == IF IsNaN(a) \/ k = 0 THEN NaN ELSE [n |-> a.n, d |-> a.d * k]

RECURSIVE FSumSeq(_)
FSumSeq(s) == IF s = <<>> THEN Num(0) ELSE FAdd(Head(s), FSumSeq(Tail(s)))

NotNaN(x) == ~IsNaN(x)

\* Series.mean(): NaN entries are skipped; NaN when nothing is left
Mean(s) ==
  LET vals == SelectSeq(s, NotNaN)
  IN FDivInt(FSumSeq(vals), Len(vals))

\* Series.sum(): NaN entries are skipped; 0 when nothing is left
FSum(s) == FSumSeq(SelectSeq(s, NotNaN))

\* ------------------------------------------------------------------
\* 3. LOCAL IMPORT DATA - the ledger loader
\* ------------------------------------------------------------------
\* pd.to_datetime(errors="coerce") of one cell
to_datetime(c) ==
  IF c.kind \in {"date", "datetext"} THEN [ym |-> c.ym, day |-> c.day] ELSE NaT

\* pd.to_numeric(errors="coerce") of one cell
to_numeric(c) ==
  IF c.kind \in {"num", "numtext"} THEN Num(c.v) ELSE NaN

\* faulty variant: keeps every row that has a port code
PortMaskAnyPort(row) == row.PORT # NA_STR

\* df[df["PORT CODE"] == PORT_CODE_TUTICORIN]
PortMask(row) == row.PORT = PORT_CODE_TUTICORIN

\* one row of the loaded frame; idx is the row label pandas keeps
ParseRow(raw, i) ==
  [idx |-> i,
   DATE |-> to_datetime(raw.DATE),
   PORT |-> raw.PORT,
   GOODS |-> raw.GOODS,
   IMPORTER |-> raw.IMPORTER,
   QUANTITY |-> to_numeric(raw.QUANTITY),
   UNIT_PRICE_USD |-> to_numeric(raw.UNIT_PRICE_USD),
   TOTAL_VALUE_USD |-> to_numeric(raw.TOTAL_VALUE_USD)]

RECURSIVE LoadFrom(_, _)
LoadFrom(file, i) ==
  IF i > Len(file) THEN <<>>
  ELSE IF PortMask(file[i]) THEN <<ParseRow(file[i], i)>> \o LoadFrom(file, i + 1)
       ELSE LoadFrom(file, i + 1)

load_tuticorin_xls(file) == LoadFrom(file, 1)

\* ------------------------------------------------------------------
\* Frame helpers: sort_values, groupby keys
\* ------------------------------------------------------------------
\* faulty variant: ignores ascending=False
KeyBeforeAscendingOnly(a, b, ascending) ==
  \/ ~IsNaN(a) /\ IsNaN(b)
  \/ FLess(a, b)

\* sort_values order of two keys: NaN goes last in either direction
KeyBefore(a, b, ascending) ==
  \/ ~IsNaN(a) /\ IsNaN(b)
  \/ IF ascending THEN FLess(a, b) ELSE FLess(b, a)

\* the positions of `keys` in sort_values order (ties keep their order)
RECURSIVE InsertPos(_, _, _, _)
InsertPos(i, done, keys, ascending) ==
  IF done = <<>> THEN <<i>>
  ELSE IF KeyBefore(keys[i], keys[Head(done)], ascending)
       THEN <<i>> \o done
       ELSE <<Head(done)>> \o InsertPos(i, Tail(done), keys, ascending)

RECURSIVE SortPos(_, _, _)
SortPos(k, keys, ascending) ==
  IF k = 0 THEN <<>>
  ELSE InsertPos(k, SortPos(k - 1, keys, ascending), keys, ascending)

sort_values(rows, keys, ascending) ==
  LET pos == SortPos(Len(rows), keys, ascending)
  IN [i \in 1..Len(rows) |-> rows[pos[i]]]

\* DataFrame.head(k)
head(rows, k) == IF Len(rows) <= k THEN rows ELSE SubSeq(rows, 1, k)

\* the distinct integer keys of a groupby, ascending
RECURSIVE SortedInts(_)
SortedInts(S) ==
  IF S = {} THEN <<>>
  ELSE LET m == CHOOSE x \in S : \A y \in S : x <= y
       IN <<m>> \o SortedInts(S \ {m})

\* the distinct timestamp keys of a groupby, ascending
RECURSIVE SortedStamps(_)
SortedStamps(S) ==
  IF S = {} THEN <<>>
  ELSE LET m == CHOOSE x \in S : \A y \in S : x = y \/ TLess(x, y)
       IN <<m>> \o SortedStamps(S \ {m})

\* ------------------------------------------------------------------
\* 4. PRICE FORECASTER
\* ------------------------------------------------------------------
GradeChars(grade) ==
  IF grade = "RBS" THEN <<"R", "B", "S">> ELSE <<"N", "C">>

\* Series.str.contains(grade, na=False) of one cell
str_contains(desc, grade) ==
  LET p == GradeChars(grade)
  IN /\ desc # NA_DESC
     /\ \E i \in 1..(Len(desc) - Len(p) + 1) : SubSeq(desc, i, i + Len(p) - 1) = p

\* faulty variant: groups by the day instead of the month
ToMonthStartKeepsDay(t) == t

\* dt.to_period("M").dt.to_timestamp(): the first day of the month
ToMonthStart(t) == IF IsNaT(t) THEN NaT ELSE [ym |-> t.ym, day |-> 1]

\* lines 119-122: the monthly mean price of the rows of one grade
MonthlySeries(df, grade) ==
  LET HasGrade(r) == str_contains(r.GOODS, grade)
      mdf == SelectSeq(df, HasGrade)
      ds == [i \in 1..Len(mdf) |-> ToMonthStart(mdf[i].DATE)]
      keys == SortedStamps({ds[i] : i \in {j \in 1..Len(mdf) : ~IsNaT(ds[j])}})
      GroupPrices(k) ==
        LET pos == SortedInts({j \in 1..Len(mdf) : ds[j] = k})
        IN [i \in 1..Len(pos) |-> mdf[pos[i]].UNIT_PRICE_USD]
      grouped == [i \in 1..Len(keys) |-> [ds |-> keys[i], y |-> Mean(GroupPrices(keys[i]))]]
      Defined(g) == ~IsNaN(g.y)
  IN SelectSeq(grouped, Defined)

\* the month `k` months after timestamp t (freq="MS")
MonthAfter(t, k) == [ym |-> t.ym + k, day |-> 1]

\* Prophet.make_future_dataframe(periods, freq="MS"): the history dates, then
\* `periods` month starts after the last one
make_future_dataframe(history, periods) ==
  LET last == history[Len(history)]
  IN history \o [i \in 1..periods |-> MonthAfter(last, i)]

NoneOut == [defined |-> FALSE, ds |-> <<>>]

\* the value train_price_model returns: None, or the forecast's ds axis (the
\* fitted yhat values are Prophet's and are not modelled)
train_price_model(df, grade) ==
  LET mdf == MonthlySeries(df, grade)
  IN IF Len(mdf) < MinPoints THEN NoneOut
     ELSE [defined |-> TRUE,
           ds |-> make_future_dataframe([i \in 1..Len(mdf) |-> mdf[i].ds], FuturePeriods)]

\* ------------------------------------------------------------------
\* T2 sell side: lines 179-180
\* ------------------------------------------------------------------
proc_avg(df) ==
  LET keys == SortedInts({df[i].IMPORTER : i \in {j \in 1..Len(df) : ~ImporterMissing(df[j].IMPORTER)}})
      Rows(k) == SortedInts({j \in 1..Len(df) : df[j].IMPORTER = k})
      Prices(k) == [i \in 1..Len(Rows(k)) |-> df[Rows(k)[i]].UNIT_PRICE_USD]
      Qtys(k) == [i \in 1..Len(Rows(k)) |-> df[Rows(k)[i]].QUANTITY]
  IN [i \in 1..Len(keys) |->
        [IMPORTER |-> keys[i],
         UNIT_PRICE_USD |-> Mean(Prices(keys[i])),
         QUANTITY |-> FSum(Qtys(keys[i]))]]

top_buyers_of(df) ==
  LET pa == proc_avg(df)
      keys == [i \in 1..Len(pa) |-> pa[i].UNIT_PRICE_USD]
  IN head(sort_values(pa, keys, FALSE), TopBuyers)

\* ------------------------------------------------------------------
\* 2. HELPERS - external data fetchers
\* ------------------------------------------------------------------
\* What requests.get does: it raises (kind "transport_error": connection error
\* or timeout), or returns a response with a status and a body. The body is not
\* JSON (json "invalid"), a JSON object (json "dict", with or without a "data"
\* member) or a JSON array (json "list"); `data` holds the items.
Reply(kind, status, json, has_data, data) ==
  [kind |-> kind, status |-> status, json |-> json, has_data |-> has_data, data |-> data]

NoRequest == Reply("no_request", 0, "invalid", FALSE, <<>>)

NoRaise == "none"

Returned(rows) == [raised |-> NoRaise, rows |-> rows]

Raised(type) == [raised |-> type, rows |-> <<>>]

\* rec.get(name, 0) of a JSON member: absent gives the default 0, null gives None
JsonNum(v) == [kind |-> "num", v |-> v]

JsonAbsent == [kind |-> "absent", v |-> 0]

JsonNull == [kind |-> "null", v |-> 0]

dict_get(cell) == IF cell.kind = "absent" THEN JsonNum(0) ELSE cell

\* `if qty:` - None and 0 are falsy
Truthy(cell) == cell.kind = "num" /\ cell.v # 0

\* lines 64-68: the rows one year's data adds; a None trade value with a truthy
\* quantity raises TypeError at val / qty
RECURSIVE ComtradeRecs(_, _, _)
ComtradeRecs(data, y, rows) ==
  IF data = <<>> THEN Returned(rows)
  ELSE LET val == dict_get(Head(data).TradeValue)
           qty == dict_get(Head(data).qty)
       IN IF ~Truthy(qty) THEN ComtradeRecs(Tail(data), y, rows)
          ELSE IF val.kind = "null" THEN Raised("TypeError")
          ELSE ComtradeRecs(Tail(data), y,
                 Append(rows, [year |-> y, value |-> val.v, qty |-> qty.v,
                               usd_per_t |-> [n |-> val.v, d |-> qty.v]]))

\* lines 57-70: replies[y] is what the endpoint answers for year y
RECURSIVE ComtradeYears(_, _, _)
ComtradeYears(years, replies, rows) ==
  IF years = <<>> THEN Returned(rows)
  ELSE LET y == Head(years)
           r == replies[y]
       IN IF r.kind = "transport_error" THEN Raised("RequestException")
          ELSE IF r.status # 200 THEN ComtradeYears(Tail(years), replies, rows)
          ELSE IF r.json = "invalid" THEN Raised("JSONDecodeError")
          ELSE IF r.json = "list" THEN Raised("AttributeError")
          ELSE LET got == ComtradeRecs(IF r.has_data THEN r.data ELSE <<>>, y, rows)
               IN IF got.raised # NoRaise THEN got
                  ELSE ComtradeYears(Tail(years), replies, got.rows)

comtrade_price(origin_iso, years, replies) == ComtradeYears(years, replies, <<>>)

\* line 172: df['usd_per_t'].mean(); a frame built from no rows has no columns
UsdPerTMean(rows) ==
  IF rows = <<>> THEN [raised |-> "KeyError", value |-> NaN]
  ELSE [raised |-> NoRaise, value |-> Mean([i \in 1..Len(rows) |-> rows[i].usd_per_t])]

\* default of `limit`
VesselLimit == 20

\* lines 76-93
mt_expected_tuticorin(key_set, reply, limit) ==
  IF ~key_set THEN Returned(<<>>)
  ELSE IF reply.kind = "transport_error" THEN Raised("RequestException")
  ELSE IF reply.status # 200 THEN Returned(<<>>)
  ELSE IF reply.json = "invalid" THEN Raised("JSONDecodeError")
  ELSE IF reply.json = "dict" THEN Raised("TypeError")
  ELSE LET js == head(reply.data, limit)
       IN Returned([i \in 1..Len(js) |->
            [Vessel |-> js[i].SHIPNAME, ETA |-> js[i].ETA]])

\* ------------------------------------------------------------------
\* T2 buy side: lines 171-174
\* ------------------------------------------------------------------
\* the origins of ORIGINS that are selected, in ORIGINS order
SelectedOrigins(sel) ==
  LET Chosen(o) == o.name \in sel
  IN SelectSeq(ORIGINS, Chosen)

\* .dropna().sort_values("FOB est. USD/t"); a frame built from no rows has no
\* such column
buy_table_of(rows) ==
  LET Defined(r) == ~IsNaN(r.FOB)
      kept == SelectSeq(rows, Defined)
  IN IF rows = <<>> THEN Raised("KeyError")
     ELSE Returned(sort_values(kept, [i \in 1..Len(kept) |-> kept[i].FOB], TRUE))

\* one iteration of the comprehension of lines 171-173: the adapter call for
\* one origin, then the mean of its usd_per_t column
BuyRow(origin, years, replies) ==
  LET got == comtrade_price(origin.iso, years, replies)
      m == UsdPerTMean(got.rows)
  IN IF got.raised # NoRaise
       THEN [raised |-> got.raised, at |-> "comtrade_price", rows |-> <<>>, mean |-> NaN]
     ELSE IF m.raised # NoRaise
       THEN [raised |-> m.raised, at |-> "buy_table", rows |-> got.rows, mean |-> NaN]
     ELSE [raised |-> NoRaise, at |-> "none", rows |-> got.rows, mean |-> m.value]

\* ------------------------------------------------------------------
\* The cache of @st.cache_data: a map from the call's arguments to the value
\* the function returned
\* ------------------------------------------------------------------
cache_hit(cache, key) == key \in DOMAIN cache

\* faulty variant: the value is returned but not kept
cache_store_forgets(cache, key, value) == cache

cache_store(cache, key, value) == (key :> value) @@ cache

CountUp(runs, key) ==
  IF key \in DOMAIN runs THEN [runs EXCEPT ![key] = @ + 1] ELSE (key :> 1) @@ runs

LOCAL_XLS == "RCN JAN 2020 TO DEC 2024.xlsx"

\* faulty variant: the check of lines 108-110 never stops the run
LedgerFoundAlways(exists) == TRUE

\* os.path.exists(LOCAL_XLS)
LedgerFound(exists) == exists

\* [datetime.now().year - 1]
Years == <<2025>>

\* ------------------------------------------------------------------
\* State
\* ------------------------------------------------------------------
VARIABLES
  pc,               \* the stage of the script the run is at
  runs,             \* script runs started in this process
  ledger_exists,    \* the file system: LOCAL_XLS is there
  ledger_file,      \* the file system: its rows (below the 5 header rows)
  mt_key,           \* MARINETRAFFIC_KEY is set
  sel_grade, sel_origin, forecast_horizon,
  imports_df, po, model_out, buy_rows, buy_table, top_buyers, vessel_df,
  loader_cache, model_cache,
  exc,              \* the exception that ended the run
  stages,           \* history: the stages this run has executed
  call,             \* history: the last adapter call, its reply and its outcome
  loader_calls, model_calls, \* history: calls of the cached functions, per key
  loader_runs, model_runs,   \* history: executions of their bodies, per key
  loader_first, model_first, \* history: what the first call with a key returned
  mdf               \* history: the monthly series of the forecaster's last execution

vars == <<pc, runs, ledger_exists, ledger_file, mt_key, sel_grade, sel_origin,
          forecast_horizon, imports_df, po, model_out, buy_rows, buy_table,
          top_buyers, vessel_df, loader_cache, model_cache, exc, stages, call,
          loader_calls, model_calls, loader_runs, model_runs, loader_first,
          model_first, mdf>>

env == <<ledger_exists, ledger_file, mt_key>>

widgets == <<sel_grade, sel_origin, forecast_horizon>>

loader_memo == <<loader_cache, loader_calls, loader_runs, loader_first>>

model_memo == <<model_cache, model_calls, model_runs, model_first>>

caches == <<loader_memo, model_memo, mdf>>

NoExc == [type |-> NoRaise, at |-> "none"]

NoMean == [raised |-> "unset", value |-> NaN]

NoCall == [adapter |-> "none", stage |-> "none", reply |-> NoRequest, raised |-> NoRaise,
           rows |-> <<>>, mean |-> NoMean]

EmptyMap == [k \in {} |-> 0]

\* the state of a run before its first statement
FreshRun ==
  /\ sel_grade = GRADES[1]
  /\ sel_origin = {}
  /\ forecast_horizon = 3
  /\ imports_df = <<>>
  /\ po = <<>>
  /\ model_out = NoneOut
  /\ buy_rows = <<>>
  /\ buy_table = <<>>
  /\ top_buyers = <<>>
  /\ vessel_df = <<>>
  /\ exc = NoExc
  /\ stages = {}
  /\ call = NoCall

\* the state of a process before its first run
FreshProcess ==
  /\ runs = 1
  /\ loader_cache = EmptyMap
  /\ model_cache = EmptyMap
  /\ loader_calls = 0
  /\ model_calls = EmptyMap
  /\ loader_runs = 0
  /\ model_runs = EmptyMap
  /\ loader_first = EmptyMap
  /\ model_first = EmptyMap
  /\ mdf = <<>>

\* an uncaught exception ends the run
Crash(type, at) ==
  /\ pc' = "crashed"
  /\ exc' = [type |-> type, at |-> at]

\* ------------------------------------------------------------------
\* The script, statement block by statement block
\* ------------------------------------------------------------------
\* lines 108-110: st.stop() when the ledger file is missing
CheckLedger ==
  /\ pc = "check"
  /\ stages' = stages \cup {"check"}
  /\ pc' = IF LedgerFound(ledger_exists) THEN "load" ELSE "stopped"
  /\ UNCHANGED <<runs, env, widgets, imports_df, po, model_out, buy_rows, buy_table,
                 top_buyers, vessel_df, caches, exc, call>>

\* line 112: the cached loader; pd.read_excel raises when the file is missing
LoadLedger ==
  /\ pc = "load"
  /\ stages' = stages \cup {"load"}
  /\ loader_calls' = loader_calls + 1
  /\ IF cache_hit(loader_cache, LOCAL_XLS)
       THEN /\ imports_df' = loader_cache[LOCAL_XLS]
            /\ pc' = "sidebar"
            /\ UNCHANGED <<loader_cache, loader_runs, loader_first, exc>>
     ELSE IF ~ledger_exists
       THEN /\ Crash("FileNotFoundError", "load_tuticorin_xls")
            /\ loader_runs' = loader_runs + 1
            /\ UNCHANGED <<imports_df, loader_cache, loader_first>>
     ELSE /\ imports_df' = load_tuticorin_xls(ledger_file)
          /\ loader_cache' = cache_store(loader_cache, LOCAL_XLS, imports_df')
          /\ loader_runs' = loader_runs + 1
          /\ loader_first' = IF LOCAL_XLS \in DOMAIN loader_first THEN loader_first
                             ELSE (LOCAL_XLS :> imports_df') @@ loader_first
          /\ pc' = "sidebar"
          /\ UNCHANGED exc
  /\ UNCHANGED <<runs, env, widgets, po, model_out, buy_rows, buy_table, top_buyers,
                 vessel_df, model_memo, mdf, call>>

\* lines 137-139: the three sidebar widgets
Sidebar(Selections, Horizons) ==
  /\ pc = "sidebar"
  /\ stages' = stages \cup {"sidebar"}
  /\ \E g \in {GRADES[i] : i \in 1..Len(GRADES)}, sel \in Selections, h \in Horizons :
       /\ sel_grade' = g
       /\ sel_origin' = sel
       /\ forecast_horizon' = h
  /\ pc' = "kpi"
  /\ UNCHANGED <<runs, env, imports_df, po, model_out, buy_rows, buy_table, top_buyers,
                 vessel_df, caches, exc, call>>

\* lines 144-149: the KPI row; the adapter is called for the first selected
\* origin, or for "GH" when none is selected
Kpi(Replies) ==
  /\ pc = "kpi"
  /\ stages' = stages \cup {"kpi"}
  /\ \E reply \in Replies :
       \E iso \in IF sel_origin = {} THEN {"GH"}
                  ELSE {ORIGINS[i].iso : i \in {j \in 1..Len(ORIGINS) : ORIGINS[j].name \in sel_origin}} :
         LET got == comtrade_price(iso, Years, [y \in {Years[1]} |-> reply])
         IN /\ call' = [adapter |-> "comtrade_price", stage |-> "kpi", reply |-> reply,
                        raised |-> got.raised, rows |-> got.rows, mean |-> NoMean]
            /\ IF got.raised # NoRaise
                 THEN Crash(got.raised, "comtrade_price") /\ UNCHANGED po
                 ELSE po' = got.rows /\ pc' = "t1" /\ UNCHANGED exc
  /\ UNCHANGED <<runs, env, widgets, imports_df, model_out, buy_rows, buy_table,
                 top_buyers, vessel_df, caches>>

\* lines 154-165: the cached forecaster
PriceCurves ==
  /\ pc = "t1"
  /\ stages' = stages \cup {"t1"}
  /\ LET key == [df |-> imports_df, grade |-> sel_grade]
     IN /\ model_calls' = CountUp(model_calls, key)
        /\ IF cache_hit(model_cache, key)
             THEN /\ model_out' = model_cache[key]
                  /\ UNCHANGED <<model_cache, model_runs, model_first, mdf>>
             ELSE /\ mdf' = MonthlySeries(imports_df, sel_grade)
                  /\ model_out' = train_price_model(imports_df, sel_grade)
                  /\ model_cache' = cache_store(model_cache, key, model_out')
                  /\ model_runs' = CountUp(model_runs, key)
                  /\ model_first' = IF key \in DOMAIN model_first THEN model_first
                                    ELSE (key :> model_out') @@ model_first
  /\ pc' = "t2_buy"
  /\ UNCHANGED <<runs, env, widgets, imports_df, po, buy_rows, buy_table, top_buyers,
                 vessel_df, loader_memo, exc, call>>

\* lines 171-174: one adapter call per selected origin, in ORIGINS order; the
\* step that handles the last origin also drops the undefined prices and sorts
BuyRadar(Replies) ==
  /\ pc = "t2_buy"
  /\ stages' = stages \cup {"t2_buy"}
  /\ LET todo == SelectedOrigins(sel_origin)
         i == Len(buy_rows) + 1
     IN IF todo = <<>>
          THEN /\ Crash(buy_table_of(<<>>).raised, "buy_table")
               /\ UNCHANGED <<buy_rows, buy_table, call>>
          ELSE \E reply \in Replies :
                 LET got == BuyRow(todo[i], Years, [y \in {Years[1]} |-> reply])
                     rows == Append(buy_rows, [Origin |-> todo[i].name, FOB |-> got.mean])
                 IN /\ call' = [adapter |-> "comtrade_price", stage |-> "t2_buy",
                                reply |-> reply,
                                raised |-> IF got.at = "comtrade_price" THEN got.raised ELSE NoRaise,
                                rows |-> got.rows,
                                mean |-> IF got.at = "comtrade_price" THEN NoMean
                                         ELSE [raised |-> got.raised, value |-> got.mean]]
                    /\ IF got.raised # NoRaise
                         THEN Crash(got.raised, got.at) /\ UNCHANGED <<buy_rows, buy_table>>
                       ELSE IF i < Len(todo)
                         THEN buy_rows' = rows /\ UNCHANGED <<pc, exc, buy_table>>
                       ELSE /\ buy_rows' = rows
                            /\ buy_table' = buy_table_of(rows).rows
                            /\ pc' = "t2_sell"
                            /\ UNCHANGED exc
  /\ UNCHANGED <<runs, env, widgets, imports_df, po, model_out, top_buyers, vessel_df,
                 caches>>

\* lines 179-181
SellRadar ==
  /\ pc = "t2_sell"
  /\ stages' = stages \cup {"t2_sell"}
  /\ top_buyers' = top_buyers_of(imports_df)
  /\ pc' = "t3"
  /\ UNCHANGED <<runs, env, widgets, imports_df, po, model_out, buy_rows, buy_table,
                 vessel_df, caches, exc, call>>

\* lines 185-190; no request is sent when the key is not set
VesselEta(Replies) ==
  /\ pc = "t3"
  /\ stages' = stages \cup {"t3"}
  /\ \E reply \in IF mt_key THEN Replies ELSE {NoRequest} :
       LET got == mt_expected_tuticorin(mt_key, reply, VesselLimit)
       IN /\ call' = [adapter |-> "mt_expected_tuticorin", stage |-> "t3", reply |-> reply,
                      raised |-> got.raised, rows |-> got.rows, mean |-> NoMean]
          /\ IF got.raised # NoRaise
               THEN Crash(got.raised, "mt_expected_tuticorin") /\ UNCHANGED vessel_df
               ELSE /\ vessel_df' = [i \in 1..Len(got.rows) |->
                                       [Vessel |-> got.rows[i].Vessel,
                                        ETA |-> to_datetime(got.rows[i].ETA)]]
                    /\ pc' = "t4"
                    /\ UNCHANGED exc
  /\ UNCHANGED <<runs, env, widgets, imports_df, po, model_out, buy_rows, buy_table,
                 top_buyers, caches>>

\* lines 192-203: charts of the loaded ledger
History ==
  /\ pc = "t4"
  /\ stages' = stages \cup {"t4"}
  /\ pc' = "done"
  /\ UNCHANGED <<runs, env, widgets, imports_df, po, model_out, buy_rows, buy_table,
                 top_buyers, vessel_df, caches, exc, call>>

\* a widget change reruns the whole script in the same process: the caches
\* stay, everything else starts over, and the file may have changed meanwhile
Rerun(Files) ==
  /\ pc \in {"done", "stopped", "crashed"}
  /\ runs < MaxRuns
  /\ runs' = runs + 1
  /\ pc' = "check"
  /\ sel_grade' = GRADES[1]
  /\ sel_origin' = {}
  /\ forecast_horizon' = 3
  /\ imports_df' = <<>>
  /\ po' = <<>>
  /\ model_out' = NoneOut
  /\ buy_rows' = <<>>
  /\ buy_table' = <<>>
  /\ top_buyers' = <<>>
  /\ vessel_df' = <<>>
  /\ exc' = NoExc
  /\ stages' = {}
  /\ call' = NoCall
  /\ \E e \in BOOLEAN, f \in Files :
       /\ ledger_exists' = e
       /\ ledger_file' = IF e THEN f ELSE <<>>
  /\ UNCHANGED <<mt_key, caches>>

\* ------------------------------------------------------------------
\* Inputs
\* ------------------------------------------------------------------
OriginNames == {ORIGINS[i].name : i \in 1..Len(ORIGINS)}

Selections(k) == {S \in SUBSET OriginNames : Cardinality(S) <= k}

Horizons == HorizonMin..HorizonMax

TradeRec(val, qty) == [TradeValue |-> val, qty |-> qty]

TradeData ==
  { <<>>,
    <<TradeRec(JsonNum(6), JsonNum(2))>>,
    <<TradeRec(JsonNum(6), JsonNum(0))>>,
    <<TradeRec(JsonNum(5), JsonNum(2)), TradeRec(JsonNum(9), JsonAbsent)>>,
    <<TradeRec(JsonAbsent, JsonNum(3)), TradeRec(JsonNum(8), JsonNum(2))>>,
    <<TradeRec(JsonNum(4), JsonNull)>>,
    <<TradeRec(JsonNull, JsonNum(2))>> }

TransportError == Reply("transport_error", 0, "invalid", FALSE, <<>>)

Http500 == Reply("http", 500, "invalid", FALSE, <<>>)

NotJson == Reply("http", 200, "invalid", FALSE, <<>>)

TradeReplies ==
  {TransportError, Http500, NotJson,
   Reply("http", 200, "dict", FALSE, <<>>),
   Reply("http", 200, "list", FALSE, <<>>)}
  \cup {Reply("http", 200, "dict", TRUE, d) : d \in TradeData}

DateCell(ym, day) == [kind |-> "date", ym |-> ym, day |-> day]

DateText(ym, day) == [kind |-> "datetext", ym |-> ym, day |-> day]

BadDate == [kind |-> "text", ym |-> 0, day |-> 0]

NumCell(v) == [kind |-> "num", v |-> v]

NumText(v) == [kind |-> "numtext", v |-> v]

BadNum == [kind |-> "text", v |-> 0]

Blank == [kind |-> "blank", v |-> 0]

Vessel(name, eta) == [SHIPNAME |-> name, ETA |-> eta]

VesselReplies ==
  {TransportError, Http500, NotJson,
   Reply("http", 200, "dict", FALSE, <<>>),
   Reply("http", 200, "list", FALSE, <<>>),
   Reply("http", 200, "list", FALSE, <<Vessel("MV ONE", DateText(70, 3))>>),
   Reply("http", 200, "list", FALSE,
         <<Vessel("MV ONE", DateText(70, 3)), Vessel("MV TWO", BadDate)>>)}

RawRow(date, port, goods, importer, qty, price, total) ==
  [DATE |-> date, PORT |-> port, GOODS |-> goods, IMPORTER |-> importer,
   QUANTITY |-> qty, UNIT_PRICE_USD |-> price, TOTAL_VALUE_USD |-> total]

DescRBS == <<"R", "C", "N", " ", "R", "B", "S">>

DescNC == <<"N", "C", " ", "4", "8">>

DescBoth == <<"R", "B", "S", "N", "C">>

DescOther == <<"r", "b", "s", " ", "N", "U", "T">>

\* the rows the small ledgers are made of: two rows of one month, an
\* unparseable date, a non-numeric price, another port and no port, text cells
\* that parse, a missing importer, descriptions that name no grade or are missing
RowKinds ==
  << RawRow(DateCell(0, 5), "INTUT1", DescRBS, 1, NumCell(10), NumCell(100), NumCell(1000)),
     RawRow(DateCell(0, 20), "INTUT1", DescBoth, 2, NumCell(5), NumCell(200), NumCell(1000)),
     RawRow(BadDate, "INTUT1", DescRBS, 1, NumCell(1), NumCell(300), BadNum),
     RawRow(DateCell(1, 1), "INTUT1", DescRBS, 1, Blank, BadNum, NumCell(7)),
     RawRow(DateCell(3, 9), "XXXX1", DescRBS, 3, NumCell(2), NumCell(500), NumCell(1000)),
     RawRow(DateText(2, 9), "INTUT1", DescNC, 0, NumText(4), NumText(50), NumCell(200)),
     RawRow(DateCell(1, 15), NA_STR, NA_DESC, 2, NumCell(3), NumCell(400), NumCell(1200)),
     RawRow(DateCell(2, 3), "INTUT1", DescOther, 3, NumCell(3), NumCell(700), NumCell(2100)),
     RawRow(DateCell(3, 3), "INTUT1", NA_DESC, 3, NumCell(1), NumCell(600), NumCell(600)) >>

SmallLedgers ==
  UNION {[1..n -> {RowKinds[i] : i \in 1..Len(RowKinds)}] : n \in 0..MaxRows}

\* one row per month 1..n of grade RBS; variant 2 lists the months backwards,
\* adds a second row for month 1 and a month n + 1 with no usable price;
\* variant 3 has no usable price in month n
MonthRow(k, variant, n) ==
  RawRow(DateCell(k, 1 + (k % 5)), "INTUT1", DescRBS, 1 + (k % 3), NumCell(k),
         IF variant = 3 /\ k = n THEN BadNum ELSE NumCell(100 + ((k * 7) % 11)),
         NumCell(1000))

MonthLedger(n, variant) ==
  IF variant = 2
    THEN [i \in 1..n |-> MonthRow(n + 1 - i, variant, n)]
         \o (IF n > 0
               THEN << RawRow(DateCell(1, 20), "INTUT1", DescBoth, 2, NumCell(1), NumCell(90),
                              NumCell(90)),
                       MonthRow(n + 1, 3, n + 1) >>
               ELSE <<>>)
    ELSE [i \in 1..n |-> MonthRow(i, variant, n)]

MonthLedgers == {MonthLedger(n, v) : n \in 0..MaxMonths, v \in 1..3}

\* one importer per row, n importers; variant 1 prices rise with the importer,
\* variant 2 has ties, variant 3 gives every fourth importer no usable price and
\* importer 1 a second row
ImporterRow(i, variant) ==
  RawRow(DateCell(i, 2), "INTUT1", DescNC, i, NumCell(i),
         IF variant = 1 THEN NumCell(100 + i)
         ELSE IF variant = 2 THEN NumCell(100 + ((i * 7) % 5))
         ELSE IF i % 4 = 0 THEN BadNum ELSE NumCell(200 - i),
         NumCell(1000))

ImporterLedger(n, variant) ==
  [i \in 1..n |-> ImporterRow(i, variant)]
  \o (IF variant = 3 /\ n > 0 THEN <<ImporterRow(1, 1)>> ELSE <<>>)

ImporterLedgers == {ImporterLedger(n, v) : n \in 0..MaxImporters, v \in 1..3}

DataLedgers == SmallLedgers \cup MonthLedgers \cup ImporterLedgers

\* the ledgers of the whole-script runs
ScriptLedgers == {MonthLedger(4, 2), MonthLedger(MinPoints, 1)}

\* the replies to the KPI row's single request
KpiReplies ==
  {TransportError, Http500, NotJson,
   Reply("http", 200, "dict", TRUE, <<TradeRec(JsonNum(6), JsonNum(2))>>)}

\* ------------------------------------------------------------------
\* One run of the script from process start
\* ------------------------------------------------------------------
Init ==
  /\ pc = "check"
  /\ FreshProcess
  /\ FreshRun
  /\ ledger_exists \in BOOLEAN
  /\ ledger_file \in IF ledger_exists THEN ScriptLedgers ELSE {<<>>}
  /\ mt_key \in BOOLEAN

Next ==
  \/ CheckLedger
  \/ LoadLedger
  \/ Sidebar(Selections(MaxSel), Horizons)
  \/ Kpi(KpiReplies)
  \/ PriceCurves
  \/ BuyRadar(TradeReplies)
  \/ SellRadar
  \/ VesselEta(VesselReplies)
  \/ History

Spec == Init /\ [][Next]_vars

\* ------------------------------------------------------------------
\* A session: the script rerun in one process, the caches kept
\* ------------------------------------------------------------------
SessionLedgers == {MonthLedger(2, 1), MonthLedger(MinPoints, 1)}

SessionReplies == {Http500, Reply("http", 200, "dict", TRUE, <<TradeRec(JsonNum(6), JsonNum(2))>>)}

NextSession ==
  \/ CheckLedger
  \/ LoadLedger
  \/ Sidebar(Selections(1), {HorizonMin, HorizonMax})
  \/ Kpi(SessionReplies)
  \/ PriceCurves
  \/ BuyRadar(SessionReplies)
  \/ SellRadar
  \/ VesselEta({Http500})
  \/ History
  \/ Rerun(SessionLedgers)

InitSession ==
  /\ pc = "check"
  /\ FreshProcess
  /\ FreshRun
  /\ ledger_exists \in BOOLEAN
  /\ ledger_file \in IF ledger_exists THEN SessionLedgers ELSE {<<>>}
  /\ mt_key \in BOOLEAN

SpecSession == InitSession /\ [][NextSession]_vars

\* ------------------------------------------------------------------
\* The loader, the forecaster and the two rankings applied to drawn inputs
\* ------------------------------------------------------------------
RECURSIVE BuyRows(_, _, _)
BuyRows(todo, replies, rows) ==
  IF todo = <<>> THEN [raised |-> NoRaise, at |-> "none", rows |-> rows]
  ELSE LET got == BuyRow(Head(todo), Years, [y \in {Years[1]} |-> replies[Head(todo).name]])
       IN IF got.raised # NoRaise THEN [raised |-> got.raised, at |-> got.at, rows |-> rows]
          ELSE BuyRows(Tail(todo), replies,
                       Append(rows, [Origin |-> Head(todo).name, FOB |-> got.mean]))

ULoad ==
  /\ pc = "u_ledger"
  /\ imports_df' = load_tuticorin_xls(ledger_file)
  /\ pc' = "u_loaded"
  /\ UNCHANGED <<runs, env, widgets, po, model_out, buy_rows, buy_table, top_buyers,
                 vessel_df, caches, exc, stages, call>>

UTrain ==
  /\ pc = "u_loaded"
  /\ \E g \in {GRADES[i] : i \in 1..Len(GRADES)}, h \in Horizons :
       /\ sel_grade' = g
       /\ forecast_horizon' = h
       /\ mdf' = MonthlySeries(imports_df, g)
       /\ model_out' = train_price_model(imports_df, g)
  /\ pc' = "u_trained"
  /\ UNCHANGED <<runs, env, sel_origin, imports_df, po, buy_rows, buy_table, top_buyers,
                 vessel_df, loader_memo, model_memo, exc, stages, call>>

USell ==
  /\ pc = "u_loaded"
  /\ top_buyers' = top_buyers_of(imports_df)
  /\ pc' = "u_sold"
  /\ UNCHANGED <<runs, env, widgets, imports_df, po, model_out, buy_rows, buy_table,
                 vessel_df, caches, exc, stages, call>>

UBuy ==
  /\ pc = "u_buy"
  /\ \E sel \in Selections(MaxSel) :
       \E replies \in [sel -> TradeReplies] :
         LET got == BuyRows(SelectedOrigins(sel), replies, <<>>)
             table == buy_table_of(got.rows)
         IN /\ sel_origin' = sel
            /\ IF got.raised # NoRaise
                 THEN Crash(got.raised, got.at) /\ UNCHANGED <<buy_rows, buy_table>>
               ELSE IF table.raised # NoRaise
                 THEN Crash(table.raised, "buy_table") /\ UNCHANGED <<buy_rows, buy_table>>
               ELSE /\ buy_rows' = got.rows
                    /\ buy_table' = table.rows
                    /\ pc' = "u_bought"
                    /\ UNCHANGED exc
  /\ UNCHANGED <<runs, env, sel_grade, forecast_horizon, imports_df, po, model_out,
                 top_buyers, vessel_df, caches, stages, call>>

InitData ==
  /\ FreshProcess
  /\ FreshRun
  /\ ledger_exists = TRUE
  /\ mt_key = FALSE
  /\ \/ pc = "u_ledger" /\ ledger_file \in DataLedgers
     \/ pc = "u_buy" /\ ledger_file = <<>>

NextData == ULoad \/ UTrain \/ USell \/ UBuy

SpecData == InitData /\ [][NextData]_vars

\* ------------------------------------------------------------------
\* Properties
\* ------------------------------------------------------------------
RECURSIVE SumOver(_, _)
SumOver(S, f) ==
  IF S = {} THEN 0
  ELSE LET x == CHOOSE y \in S : TRUE IN f[x] + SumOver(S \ {x}, f)

Min(a, b) == IF a <= b THEN a ELSE b

\* the mean of the defined unit prices of the rows `R` of `df`, undefined when
\* there is none; ledger prices are whole numbers
GroupMean(df, R) ==
  LET D == {j \in R : ~IsNaN(df[j].UNIT_PRICE_USD)}
  IN IF D = {} THEN NaN
     ELSE [n |-> SumOver(D, [j \in D |-> df[j].UNIT_PRICE_USD.n]), d |-> Cardinality(D)]

IsMeanOf(m, df, R) ==
  LET g == GroupMean(df, R)
  IN IF IsNaN(g) THEN IsNaN(m) ELSE FEq(m, g)

\* a comes no later than b in descending order, undefined values last
DescOrder(a, b) == IsNaN(b) \/ (~IsNaN(a) /\ ~FLess(a, b))

FailureReply(r) ==
  \/ r.kind \in {"transport_error", "no_request"}
  \/ r.kind = "http" /\ r.status # 200
  \/ r.kind = "http" /\ r.status = 200 /\ r.json = "invalid"

\* C1: every adapter call returns (never raises), and returns an empty result
\* when the endpoint fails (non-success status, transport error or timeout,
\* malformed payload) or the access token is missing.
C1_AdaptersNeverRaise ==
  call.adapter # "none" =>
    /\ call.raised = NoRaise
    /\ FailureReply(call.reply) => call.rows = <<>>

\* C2: when the endpoint answers a buy-ranking request for one origin with a
\* non-success status, the ranking still completes without an exception, and
\* the finished table holds exactly the origins whose price is defined.
C2_FailedOriginOmitted ==
  /\ ( /\ call.stage = "t2_buy"
       /\ call.reply.kind = "http"
       /\ call.reply.status # 200 )
     => exc.at # "buy_table"
  /\ pc = "t2_sell" =>
       {buy_table[i].Origin : i \in 1..Len(buy_table)}
         = {buy_rows[i].Origin : i \in {j \in 1..Len(buy_rows) : ~IsNaN(buy_rows[j].FOB)}}

StrictlyIncreasing(ds) == \A i \in 1..(Len(ds) - 1) : TLess(ds[i], ds[i + 1])

\* C3: the forecast is undefined when the monthly series has fewer than 12
\* points; otherwise it has len(series) + h points, h the chosen horizon, on a
\* strictly increasing month axis.
C3_ForecastLength ==
  pc = "u_trained" =>
    IF Len(mdf) < MinPoints THEN ~model_out.defined
    ELSE /\ model_out.defined
         /\ Len(model_out.ds) = Len(mdf) + forecast_horizon
         /\ StrictlyIncreasing(model_out.ds)

\* C4: in a run that finds the ledger file missing, the loader is not called
\* and no stage after the check runs; in any run, a stage that reads the
\* ledger runs only after the loader was called.
C4_FatalHalt ==
  /\ ~ledger_exists =>
       /\ stages \subseteq {"check"}
       /\ pc \in {"check", "stopped"}
       /\ call = NoCall
  /\ stages \cap {"kpi", "t1", "t2_sell", "t4"} # {} => "load" \in stages

C4_Witness ==
  /\ pc = "stopped"
  /\ ~ledger_exists
  /\ "check" \in stages
  /\ runs > 1
  /\ cache_hit(loader_cache, LOCAL_XLS)

\* C5: a run ends early only by the fatal stop for a missing ledger; when the
\* ledger exists no failure of an adapter or of the data ends the run.
C5_OnlyFatalStops ==
  pc \in {"stopped", "crashed"} => ~ledger_exists /\ pc = "stopped"

\* C6: per key, the body of a cached function runs exactly once however often
\* it is called, and every call returns what the first call returned.
C6_ProducerOnce ==
  /\ loader_runs <= 1
  /\ loader_calls > 0 => loader_runs = 1
  /\ DOMAIN model_runs = DOMAIN model_calls
  /\ \A k \in DOMAIN model_calls : model_runs[k] = 1
  /\ "load" \in stages => imports_df = loader_first[LOCAL_XLS]
  /\ "t1" \in stages => model_out = model_first[[df |-> imports_df, grade |-> sel_grade]]

C6_Witness ==
  /\ loader_calls > 1
  /\ "t1" \in stages
  /\ imports_df # load_tuticorin_xls(ledger_file)
  /\ model_calls[[df |-> imports_df, grade |-> sel_grade]] > 1

\* C7: the rows the bulk-trade adapter returns are exactly the sub-records with
\* a quantity above zero, each with unit price trade_value / quantity, and the
\* average is undefined (not an error) when there is no such sub-record.
C7_UnitPrice ==
  (call.adapter = "comtrade_price" /\ call.raised = NoRaise /\ call.reply.kind = "http"
     /\ call.reply.status = 200 /\ call.reply.json = "dict") =>
    LET data == IF call.reply.has_data THEN call.reply.data ELSE <<>>
        valid == {i \in 1..Len(data) : data[i].qty.kind = "num" /\ data[i].qty.v > 0}
    IN /\ Len(call.rows) = Cardinality(valid)
       /\ \A j \in 1..Len(call.rows) :
            /\ call.rows[j].qty > 0
            /\ call.rows[j].usd_per_t.n * call.rows[j].qty
                 = call.rows[j].value * call.rows[j].usd_per_t.d
            /\ \E i \in valid : /\ data[i].qty.v = call.rows[j].qty
                                /\ dict_get(data[i].TradeValue).v = call.rows[j].value
       /\ (call.mean.raised # "unset" /\ valid = {}) =>
            call.mean.raised = NoRaise /\ IsNaN(call.mean.value)

Importers(df) == {df[i].IMPORTER : i \in {j \in 1..Len(df) : ~ImporterMissing(df[j].IMPORTER)}}

\* C8: the buy ranking is sorted ascending by price; the sell ranking has one
\* entry per importer with the importer's mean unit price, holds the
\* min(10, number of importers) importers with the highest means, and is sorted
\* descending by mean (importers without a defined mean last).
C8_Rankings ==
  /\ \A i \in 1..(Len(buy_table) - 1) :
       /\ ~IsNaN(buy_table[i].FOB) /\ ~IsNaN(buy_table[i + 1].FOB)
       /\ ~FLess(buy_table[i + 1].FOB, buy_table[i].FOB)
  /\ pc = "u_sold" =>
       LET tb == top_buyers
           imps == Importers(imports_df)
           RowsOf(k) == {j \in 1..Len(imports_df) : imports_df[j].IMPORTER = k}
       IN /\ Len(tb) = Min(TopBuyers, Cardinality(imps))
          /\ \A i \in 1..Len(tb) :
               /\ tb[i].IMPORTER \in imps
               /\ IsMeanOf(tb[i].UNIT_PRICE_USD, imports_df, RowsOf(tb[i].IMPORTER))
               /\ \A j \in 1..Len(tb) : i # j => tb[i].IMPORTER # tb[j].IMPORTER
          /\ \A i \in 1..(Len(tb) - 1) :
               DescOrder(tb[i].UNIT_PRICE_USD, tb[i + 1].UNIT_PRICE_USD)
          /\ \A k \in imps \ {tb[i].IMPORTER : i \in 1..Len(tb)} :
               \A i \in 1..Len(tb) :
                 DescOrder(tb[i].UNIT_PRICE_USD, GroupMean(imports_df, RowsOf(k)))

C8_Witness ==
  /\ pc = "u_sold"
  /\ Cardinality(Importers(imports_df)) > TopBuyers
  /\ Len(top_buyers) = TopBuyers
  /\ \E i \in 1..(Len(top_buyers) - 1) :
       FLess(top_buyers[i + 1].UNIT_PRICE_USD, top_buyers[i].UNIT_PRICE_USD)
  /\ \E i \in 1..Len(imports_df) : IsNaN(imports_df[i].UNIT_PRICE_USD)

Coerced(cell, v) ==
  IF cell.kind \in {"num", "numtext"} THEN v = Num(cell.v) ELSE IsNaN(v)

\* C9: the loader returns exactly the rows whose port code is INTUT1, in file
\* order; a date or number that does not parse becomes missing and its row stays.
C9_LoaderFilter ==
  pc \in {"u_loaded", "u_trained", "u_sold"} =>
    LET keep == {i \in 1..Len(ledger_file) : ledger_file[i].PORT = "INTUT1"}
    IN /\ Len(imports_df) = Cardinality(keep)
       /\ \A j \in 1..(Len(imports_df) - 1) : imports_df[j].idx < imports_df[j + 1].idx
       /\ \A j \in 1..Len(imports_df) :
            /\ imports_df[j].idx \in keep
            /\ LET raw == ledger_file[imports_df[j].idx]
                   row == imports_df[j]
               IN /\ row.PORT = "INTUT1"
                  /\ row.GOODS = raw.GOODS
                  /\ row.IMPORTER = raw.IMPORTER
                  /\ IF raw.DATE.kind \in {"date", "datetext"}
                       THEN row.DATE = [ym |-> raw.DATE.ym, day |-> raw.DATE.day]
                       ELSE IsNaT(row.DATE)
                  /\ Coerced(raw.QUANTITY, row.QUANTITY)
                  /\ Coerced(raw.UNIT_PRICE_USD, row.UNIT_PRICE_USD)
                  /\ Coerced(raw.TOTAL_VALUE_USD, row.TOTAL_VALUE_USD)

C9_Witness ==
  /\ pc = "u_loaded"
  /\ Len(imports_df) > 1
  /\ Len(imports_df) < Len(ledger_file)
  /\ \E j \in 1..Len(imports_df) : IsNaT(imports_df[j].DATE)
  /\ \E j \in 1..Len(imports_df) : IsNaN(imports_df[j].UNIT_PRICE_USD)

\* the rows of df of the grade in month ym
GradeMonthRows(df, grade, ym) ==
  {j \in 1..Len(df) : /\ str_contains(df[j].GOODS, grade)
                      /\ ~IsNaT(df[j].DATE)
                      /\ df[j].DATE.ym = ym}

\* C10: the monthly series has strictly increasing month keys, one per calendar
\* month; each value is the mean unit price of the month's records of the
\* grade, and exactly the months with a defined mean appear.
C10_MonthlySeries ==
  pc = "u_trained" =>
    /\ \A i \in 1..(Len(mdf) - 1) : mdf[i].ds.ym < mdf[i + 1].ds.ym
    /\ \A i \in 1..Len(mdf) :
         /\ ~IsNaN(mdf[i].y)
         /\ mdf[i].ds.day = 1
         /\ IsMeanOf(mdf[i].y, imports_df, GradeMonthRows(imports_df, sel_grade, mdf[i].ds.ym))
    /\ \A j \in 1..Len(imports_df) :
         ( /\ str_contains(imports_df[j].GOODS, sel_grade)
           /\ ~IsNaT(imports_df[j].DATE)
           /\ ~IsNaN(imports_df[j].UNIT_PRICE_USD) )
         => \E i \in 1..Len(mdf) : mdf[i].ds.ym = imports_df[j].DATE.ym

C10_Witness ==
  /\ pc = "u_trained"
  /\ Len(mdf) > 1
  /\ \E j, k \in 1..Len(imports_df) :
       /\ j < k
       /\ k \in GradeMonthRows(imports_df, sel_grade, imports_df[j].DATE.ym)
       /\ j \in GradeMonthRows(imports_df, sel_grade, imports_df[j].DATE.ym)
       /\ imports_df[j].DATE.day # imports_df[k].DATE.day
  /\ \E j \in 1..(Len(imports_df) - 1) :
       TLess(imports_df[j + 1].DATE, imports_df[j].DATE)
  /\ \E j \in 1..Len(imports_df) :
       /\ str_contains(imports_df[j].GOODS, sel_grade)
       /\ ~IsNaT(imports_df[j].DATE)
       /\ \A i \in 1..Len(mdf) : mdf[i].ds.ym # imports_df[j].DATE.ym

====
